---- MODULE Spec2Model ----
(***************************************************************************)
(* A model of the XBRL US client (src/src/xbrl_client.py) and of the       *)
(* income-statement pipeline built on it (src/src/financial_classes.py).   *)
(*                                                                         *)
(* Python values are represented as follows:                               *)
(*   Optional[x]   <<>> for None, <<x>> for a value                        *)
(*   time          whole seconds since the start of the run                *)
(*   messages      the sequence of the parts an f-string concatenates      *)
(***************************************************************************)
EXTENDS Integers, Sequences, FiniteSets, TLC

VARIABLES
    now,                \* datetime.now(), in seconds
    phase,              \* "none" | "ready" | "failed": outcome of XBRLClient(...)
    access_token,       \* XBRLClient.access_token
    token_expiry_time,  \* XBRLClient.token_expiry_time
    authorization,      \* XBRLClient.session.headers["Authorization"]
    op,                 \* the operation that ran last
    token_requests,     \* POSTs to the token endpoint made by that operation
    token_answers,      \* what the token endpoint answered to each of them
    query_calls,        \* calls of client.query made by that operation
    gets,               \* GETs that operation sent to the data endpoint
    answer,             \* what the data endpoint answered to the GET, if sent
    raised,             \* the exception it raised, if any
    returned,           \* the value it returned, if any
    files,              \* the files it wrote
    statement_type,     \* argument of _find_financial_statement_network
    pc,                 \* position of load_income_statement_data
    network_id,         \* its local network_id
    concepts,           \* statement.concepts
    facts,              \* statement.facts
    offset,             \* its local offset
    calls,              \* the client.query calls it made so far
    pages,              \* the rows each call for facts got, None if it raised
    statements,         \* Report.statements.get("Income Statement")
    reports             \* Company.reports, fiscal year to Report

clientVars == <<phase, access_token, token_expiry_time, authorization>>
opVars == <<op, token_requests, token_answers, query_calls, gets, answer,
            raised, returned, files>>
reportVars == <<statement_type, pc, network_id, concepts, facts, offset,
                calls, pages, statements>>
companyVars == <<reports>>
vars == <<now, clientVars, opVars, reportVars, companyVars>>

-----------------------------------------------------------------------------
(* Bounds of the model.                                                    *)

MaxNow == 3600          \* the clock stops advancing here
MaxCandidates == 3      \* networks in one answer of the network search
MaxPages == 3           \* full pages of facts the endpoint serves to one call
MaxConcepts == 2        \* concept rows added to one statement
MaxRows == 2            \* rows in one answer of report/search
MaxFacts == 3           \* fact rows added to one statement

(* Program constants.                                                      *)

ExpiryBuffer == 300         \* timedelta(seconds=expires_in_seconds - 300)
DefaultExpiresIn == 3600    \* token_data.get("expires_in", 3600)
page_size == 100            \* page_size = 100

-----------------------------------------------------------------------------
(* Python helpers.                                                         *)

None == <<>>
Some(x) == <<x>>

\* bool(x) of an Optional[str]: None and "" are falsy
Truthy(v) == v # None /\ v[1] # ""

\* str(x) as an f-string formats an Optional[str]
Str(v) == IF v = None THEN "None" ELSE v[1]

\* f"Bearer {self.access_token}"
Bearer(v) == "Bearer " \o Str(v)

\* dict.get(key, default) of an optional entry
GetOr(v, default) == IF v = None THEN default ELSE v[1]

-----------------------------------------------------------------------------
(* The environment: what the two endpoints may answer.                     *)

Tokens == {"tokA", "tokB"}
ExpiresInValues == {300, 900, 3600}
TickSteps == {300, 3300}

\* requests.Response.raise_for_status(): HTTPError for 400 <= status < 600
RaisesForStatus(status) == 400 <= status /\ status < 600

TokenResponse(err, status, tok, exp) ==
    [err |-> err, status |-> status, access_token |-> tok, expires_in |-> exp]

\* Answers of the token endpoint: unreachable, an error status, or a JSON
\* body in which access_token and expires_in may each be absent.
TokenResponses ==
    {TokenResponse(TRUE, 0, None, None)}
    \cup {TokenResponse(FALSE, 500, None, None)}
    \cup {TokenResponse(FALSE, 200, t, e) :
            t \in {None, Some("")} \cup {Some(k) : k \in Tokens},
            e \in {None} \cup {Some(x) : x \in ExpiresInValues}}

NoTokenResponse == TokenResponse(TRUE, -1, None, None)

\* The texts a data-endpoint answer may carry, with str.lower() of each
LowerOf(s) ==
    CASE s = "Unauthorized" -> "unauthorized"
      [] s = "Token Expired" -> "token expired"
      [] s = "Not Found" -> "not found"
      [] s = "OK" -> "ok"
      [] s = "Odd" -> "odd"
      [] OTHER -> s

\* "expired" in text, for the lowered texts above
HasExpired(s) == s \in {"token expired"}

GetResponse(err, status, reason, parses, error, data) ==
    [err |-> err, status |-> status, reason |-> reason, parses |-> parses,
     error |-> error, data |-> data]

-----------------------------------------------------------------------------
(* class XBRLAPIError and the exceptions of requests.                      *)

XBRLAPIError(message, status_code, response_data) ==
    [type |-> "XBRLAPIError", message |-> message,
     status_code |-> status_code, response_data |-> response_data]

TypeError == [type |-> "TypeError", message |-> <<>>,
              status_code |-> None, response_data |-> None]

\* the client's own fields, as one value
Client(tok, exp, auth) ==
    [access_token |-> tok, token_expiry_time |-> exp, authorization |-> auth]

Self == Client(access_token, token_expiry_time, authorization)

\* XBRLClient.__init__ up to the token request: lines 28-37
NewClient == Client(None, None, None)

-----------------------------------------------------------------------------
(* XBRLClient: the methods, as functions of the client's fields c, the     *)
(* time t of the call and the answers of the endpoints.  A result holds    *)
(* the fields after the call (c), the answers of the token endpoint the    *)
(* call consumed, one per POST (posts), the GETs it sent (gets), the       *)
(* exception it raised and the value it returned.                          *)

\* _request_new_token dropping the token it has when the request fails
_request_new_token_clears(c, t, r) ==
    IF r.err \/ RaisesForStatus(r.status)
    THEN [c |-> Client(None, None, c.authorization),
          raised |-> Some(XBRLAPIError(
              <<"Failed to retrieve new access token: ",
                IF r.err THEN "ConnectionError" ELSE "HTTPError">>, None, None))]
    ELSE [c |-> Client(r.access_token,
                       Some(t + GetOr(r.expires_in, DefaultExpiresIn) - ExpiryBuffer),
                       Some(Bearer(r.access_token))),
          raised |-> None]

\* _request_new_token leaving the session's header as it was
_request_new_token_no_header(c, t, r) ==
    IF r.err \/ RaisesForStatus(r.status)
    THEN [c |-> c,
          raised |-> Some(XBRLAPIError(
              <<"Failed to retrieve new access token: ",
                IF r.err THEN "ConnectionError" ELSE "HTTPError">>, None, None))]
    ELSE [c |-> Client(r.access_token,
                       Some(t + GetOr(r.expires_in, DefaultExpiresIn) - ExpiryBuffer),
                       c.authorization),
          raised |-> None]

\* _request_new_token with the five-minute buffer left out of the expiry
_request_new_token_no_buffer(c, t, r) ==
    IF r.err \/ RaisesForStatus(r.status)
    THEN [c |-> c,
          raised |-> Some(XBRLAPIError(
              <<"Failed to retrieve new access token: ",
                IF r.err THEN "ConnectionError" ELSE "HTTPError">>, None, None))]
    ELSE [c |-> Client(r.access_token,
                       Some(t + GetOr(r.expires_in, DefaultExpiresIn)),
                       Some(Bearer(r.access_token))),
          raised |-> None]

\* XBRLClient._request_new_token: lines 46-85.  r is the token endpoint's
\* answer.  The fields change only when the POST and raise_for_status pass.
_request_new_token(c, t, r) ==
    IF r.err \/ RaisesForStatus(r.status)
    THEN [c |-> c,
          raised |-> Some(XBRLAPIError(
              <<"Failed to retrieve new access token: ",
                IF r.err THEN "ConnectionError" ELSE "HTTPError">>, None, None))]
    ELSE [c |-> Client(r.access_token,
                       Some(t + GetOr(r.expires_in, DefaultExpiresIn) - ExpiryBuffer),
                       Some(Bearer(r.access_token))),
          raised |-> None]

\* the condition of _ensure_token_is_valid with its comparison turned round
NeedsTokenReversed(c, t) ==
    \/ ~Truthy(c.access_token)
    \/ c.token_expiry_time = None
    \/ t <= c.token_expiry_time[1]

\* The condition of XBRLClient._ensure_token_is_valid: line 92
NeedsToken(c, t) ==
    \/ ~Truthy(c.access_token)
    \/ c.token_expiry_time = None
    \/ t >= c.token_expiry_time[1]

\* _ensure_token_is_valid going on after a token request that failed
_ensure_token_is_valid_swallows(c, t, r) ==
    IF Truthy(c.access_token) /\ c.token_expiry_time = None
    THEN [c |-> c, posts |-> <<>>, raised |-> Some(TypeError)]
    ELSE IF NeedsToken(c, t)
    THEN LET q == _request_new_token(c, t, r) IN
         IF q.raised # None
         THEN [c |-> q.c, posts |-> <<r>>, raised |-> None]
         ELSE [c |-> [q.c EXCEPT !.authorization = Some(Bearer(q.c.access_token))],
               posts |-> <<r>>, raised |-> None]
    ELSE [c |-> c, posts |-> <<>>, raised |-> None]

\* XBRLClient._ensure_token_is_valid: lines 87-97.  Comparing the time with
\* an expiry of None raises TypeError.
_ensure_token_is_valid(c, t, r) ==
    IF Truthy(c.access_token) /\ c.token_expiry_time = None
    THEN [c |-> c, posts |-> <<>>, raised |-> Some(TypeError)]
    ELSE IF NeedsToken(c, t)
    THEN LET q == _request_new_token(c, t, r) IN
         IF q.raised # None
         THEN [c |-> q.c, posts |-> <<r>>, raised |-> q.raised]
         ELSE [c |-> [q.c EXCEPT !.authorization = Some(Bearer(q.c.access_token))],
               posts |-> <<r>>, raised |-> None]
    ELSE [c |-> c, posts |-> <<>>, raised |-> None]

\* error_data of _handle_response: the parsed body, or the substitute
ErrorData(resp) ==
    IF resp.parses THEN [error |-> resp.error]
    ELSE [error |-> Some("Could not parse error message from API.")]

\* message of _handle_response: lines 109-111
ErrorMessage(resp) ==
    <<"API request failed with status ", ToString(resp.status), ": ", resp.reason>>
    \o (IF ErrorData(resp).error # None
        THEN <<" - ", ErrorData(resp).error[1]>> ELSE <<>>)

\* "expired" in message.lower(): line 115
MentionsExpired(message) ==
    \E i \in 1..Len(message) : HasExpired(LowerOf(message[i]))

\* XBRLClient._handle_response: lines 99-122.  r2 is the token endpoint's
\* answer to the refresh of line 117.
_handle_response(c, t, resp, r2) ==
    IF resp.status >= 400
    THEN LET message == ErrorMessage(resp)
             refresh == resp.status = 401 /\ MentionsExpired(message)
             q == IF refresh THEN _request_new_token(c, t, r2)
                  ELSE [c |-> c, raised |-> None]
         IN  [c |-> q.c,
              posts |-> IF refresh THEN <<r2>> ELSE <<>>,
              raised |-> IF q.raised # None THEN q.raised
                         ELSE Some(XBRLAPIError(message, Some(resp.status),
                                                Some(ErrorData(resp)))),
              returned |-> None]
    ELSE IF resp.parses
    THEN [c |-> c, posts |-> <<>>, raised |-> None,
          returned |-> Some([data |-> resp.data])]
    ELSE [c |-> c, posts |-> <<>>,
          raised |-> Some([type |-> "JSONDecodeError", message |-> <<>>,
                           status_code |-> None, response_data |-> None]),
          returned |-> None]

\* An endpoint with the parameters that tell two requests apart: the path
\* and, for a page of facts, the fact.offset(...) of its fields
Request(path, off) == [path |-> path, offset |-> off]

\* What the data endpoint sees of one GET
Sent(c, t, endpoint) ==
    [at |-> t, endpoint |-> endpoint, authorization |-> c.authorization,
     access_token |-> c.access_token, token_expiry_time |-> c.token_expiry_time]

\* except requests.exceptions.RequestException: line 145
NetworkError(cause) ==
    XBRLAPIError(<<"Network or request error: ", cause>>, None, None)

\* query sending its GET a second time when the answer is an error status
query_resends(c, t, endpoint, r, resp, r2) ==
    LET e == _ensure_token_is_valid(c, t, r) IN
    IF e.raised # None
    THEN [c |-> e.c, posts |-> e.posts, gets |-> <<>>, queries |-> 1,
          raised |-> e.raised, returned |-> None]
    ELSE LET sent == <<Sent(e.c, t, endpoint)>> IN
         IF resp.err
         THEN [c |-> e.c, posts |-> e.posts, gets |-> sent, queries |-> 1,
               raised |-> Some(NetworkError("ConnectionError")), returned |-> None]
         ELSE IF RaisesForStatus(resp.status)
         THEN [c |-> e.c, posts |-> e.posts, gets |-> sent \o sent, queries |-> 1,
               raised |-> Some(NetworkError("HTTPError")), returned |-> None]
         ELSE LET h == _handle_response(e.c, t, resp, r2) IN
              [c |-> h.c, posts |-> e.posts \o h.posts, gets |-> sent, queries |-> 1,
               raised |-> IF h.raised # None /\ h.raised[1].type = "JSONDecodeError"
                          THEN Some(NetworkError("JSONDecodeError"))
                          ELSE h.raised,
               returned |-> h.returned]

\* XBRLClient.query: lines 124-146.  r answers the token request of
\* _ensure_token_is_valid, resp the GET, r2 a refresh by _handle_response.
query(c, t, endpoint, r, resp, r2) ==
    LET e == _ensure_token_is_valid(c, t, r) IN
    IF e.raised # None
    THEN [c |-> e.c, posts |-> e.posts, gets |-> <<>>, queries |-> 1,
          raised |-> e.raised, returned |-> None]
    ELSE LET sent == <<Sent(e.c, t, endpoint)>> IN
         IF resp.err
         THEN [c |-> e.c, posts |-> e.posts, gets |-> sent, queries |-> 1,
               raised |-> Some(NetworkError("ConnectionError")), returned |-> None]
         ELSE IF RaisesForStatus(resp.status)
         THEN [c |-> e.c, posts |-> e.posts, gets |-> sent, queries |-> 1,
               raised |-> Some(NetworkError("HTTPError")), returned |-> None]
         ELSE LET h == _handle_response(e.c, t, resp, r2) IN
              [c |-> h.c, posts |-> e.posts \o h.posts, gets |-> sent, queries |-> 1,
               raised |-> IF h.raised # None /\ h.raised[1].type = "JSONDecodeError"
                          THEN Some(NetworkError("JSONDecodeError"))
                          ELSE h.raised,
               returned |-> h.returned]

\* XBRLClient.get_token: lines 151-157
get_token(c, t, r) ==
    LET e == _ensure_token_is_valid(c, t, r) IN
    [c |-> e.c, posts |-> e.posts, gets |-> <<>>, queries |-> 0,
     raised |-> e.raised,
     returned |-> IF e.raised = None THEN Some(e.c.access_token) ELSE None]

\* __init__ without the check of the token it got
__init___unchecked(t, r) ==
    LET q == _request_new_token(NewClient, t, r) IN
    [c |-> q.c, posts |-> <<r>>, gets |-> <<>>, queries |-> 0,
     raised |-> q.raised, returned |-> None]

\* XBRLClient.__init__: lines 28-43
__init__(t, r) ==
    LET q == _request_new_token(NewClient, t, r) IN
    [c |-> q.c, posts |-> <<r>>, gets |-> <<>>, queries |-> 0,
     raised |-> IF q.raised # None THEN q.raised
                ELSE IF ~Truthy(q.c.access_token)
                THEN Some(XBRLAPIError(
                    <<"Failed to initialize client: Could not retrieve a valid access token.">>,
                    None, None))
                ELSE None,
     returned |-> None]

-----------------------------------------------------------------------------
(* The second client of the repository, class XBRLClient of XBRLClient.py, *)
(* over the same fields.                                                   *)

\* XBRLClient._request_new_token of XBRLClient.py: lines 35-63.  The
\* session's headers are not touched.
XBRLClient_request_new_token(c, t, r) ==
    IF r.err \/ RaisesForStatus(r.status)
    THEN [c |-> c,
          raised |-> Some(XBRLAPIError(
              <<"Failed to retrieve new access token: ",
                IF r.err THEN "ConnectionError" ELSE "HTTPError">>, None, None))]
    ELSE [c |-> Client(r.access_token,
                       Some(t + GetOr(r.expires_in, DefaultExpiresIn) - ExpiryBuffer),
                       c.authorization),
          raised |-> None]

\* XBRLClient._ensure_token_is_valid of XBRLClient.py: lines 65-75
XBRLClient_ensure_token_is_valid(c, t, r) ==
    IF Truthy(c.access_token) /\ c.token_expiry_time = None
    THEN [c |-> c, posts |-> <<>>, raised |-> Some(TypeError)]
    ELSE IF NeedsToken(c, t)
    THEN LET q == XBRLClient_request_new_token(c, t, r) IN
         IF q.raised # None
         THEN [c |-> q.c, posts |-> <<r>>, raised |-> q.raised]
         ELSE [c |-> [q.c EXCEPT !.authorization = Some(Bearer(q.c.access_token))],
               posts |-> <<r>>, raised |-> None]
    ELSE [c |-> c, posts |-> <<>>, raised |-> None]

\* XBRLClient._handle_response of XBRLClient.py: lines 77-100
XBRLClient_handle_response(c, t, resp, r2) ==
    IF resp.status >= 400
    THEN LET message == ErrorMessage(resp)
             refresh == resp.status = 401 /\ MentionsExpired(message)
             q == IF refresh THEN XBRLClient_request_new_token(c, t, r2)
                  ELSE [c |-> c, raised |-> None]
         IN  [c |-> q.c,
              posts |-> IF refresh THEN <<r2>> ELSE <<>>,
              raised |-> IF q.raised # None THEN q.raised
                         ELSE Some(XBRLAPIError(message, Some(resp.status),
                                                Some(ErrorData(resp)))),
              returned |-> None]
    ELSE IF resp.parses
    THEN [c |-> c, posts |-> <<>>, raised |-> None,
          returned |-> Some([data |-> resp.data])]
    ELSE [c |-> c, posts |-> <<>>,
          raised |-> Some([type |-> "JSONDecodeError", message |-> <<>>,
                           status_code |-> None, response_data |-> None]),
          returned |-> None]

\* XBRLClient.query of XBRLClient.py: lines 102-114
XBRLClient_query(c, t, endpoint, r, resp, r2) ==
    LET e == XBRLClient_ensure_token_is_valid(c, t, r) IN
    IF e.raised # None
    THEN [c |-> e.c, posts |-> e.posts, gets |-> <<>>, queries |-> 1,
          raised |-> e.raised, returned |-> None]
    ELSE LET sent == <<Sent(e.c, t, endpoint)>> IN
         IF resp.err
         THEN [c |-> e.c, posts |-> e.posts, gets |-> sent, queries |-> 1,
               raised |-> Some(NetworkError("ConnectionError")), returned |-> None]
         ELSE IF RaisesForStatus(resp.status)
         THEN [c |-> e.c, posts |-> e.posts, gets |-> sent, queries |-> 1,
               raised |-> Some(NetworkError("HTTPError")), returned |-> None]
         ELSE LET h == XBRLClient_handle_response(e.c, t, resp, r2) IN
              [c |-> h.c, posts |-> e.posts \o h.posts, gets |-> sent, queries |-> 1,
               raised |-> IF h.raised # None /\ h.raised[1].type = "JSONDecodeError"
                          THEN Some(NetworkError("JSONDecodeError"))
                          ELSE h.raised,
               returned |-> h.returned]

\* XBRLClient.__init__ of XBRLClient.py: lines 16-33.  The token it got is
\* not looked at.
XBRLClient_init(t, r) ==
    LET q == XBRLClient_request_new_token(NewClient, t, r) IN
    [c |-> q.c, posts |-> <<r>>, gets |-> <<>>, queries |-> 0,
     raised |-> q.raised, returned |-> None]

-----------------------------------------------------------------------------
(* class FinancialStatement.  A row is a record of its columns; a          *)
(* DataFrame is the sequence of its rows.                                  *)

\* the value pandas puts where a row has nothing for a column
NaN == "NaN"

\* the statement's two lists, as one value
Statement(cs, fs) == [concepts |-> cs, facts |-> fs]

\* FinancialStatement.add_concepts: lines 27-29
add_concepts(self, new_concepts) ==
    [self EXCEPT !.concepts = @ \o new_concepts]

\* FinancialStatement.add_facts: lines 31-33
add_facts(self, new_facts) ==
    [self EXCEPT !.facts = @ \o new_facts]

\* one row of DataFrame.rename(columns={old: new})
Rename(row, old, new) ==
    IF old \in DOMAIN row
    THEN [k \in (DOMAIN row \ {old}) \cup {new} |->
            IF k = new THEN row[old] ELSE row[k]]
    ELSE row

\* df_concepts.rename(columns={...}, inplace=True): line 51
RenameColumns(rows, old, new) ==
    [i \in 1..Len(rows) |-> Rename(rows[i], old, new)]

\* the columns of pd.DataFrame(rows)
Columns(rows) == UNION {DOMAIN rows[i] : i \in 1..Len(rows)}

\* a frame that keeps the rows that repeat an earlier row
KeepDuplicates(rows) == rows

\* DataFrame.drop_duplicates(): line 55.  The first of equal rows stays.
DropDuplicates(rows) ==
    LET F[i \in 0..Len(rows)] ==
            IF i = 0 THEN <<>>
            ELSE IF \A j \in 1..(i - 1) : rows[j] # rows[i]
            THEN Append(F[i - 1], rows[i])
            ELSE F[i - 1]
    IN  F[Len(rows)]

\* left.merge(right, how='left', on=key): lines 54-58.  The rows of left in
\* their order, each with every row of right of its key, in right's order,
\* or once with NaN in right's columns when right has none.
MergeLeft(left, right, key) ==
    LET Matches(l) == SelectSeq(right, LAMBDA x : x[key] = l[key])
        Blank == [k \in Columns(right) \ Columns(left) |-> NaN]
        RowsFor(l) ==
            IF Matches(l) = <<>> THEN <<l @@ Blank>>
            ELSE [j \in 1..Len(Matches(l)) |-> l @@ Matches(l)[j]]
        F[i \in 0..Len(left)] ==
            IF i = 0 THEN <<>> ELSE F[i - 1] \o RowsFor(left[i])
    IN  F[Len(left)]

\* an order by tree-depth first and tree-sequence second
PrecedesDepthFirst(a, b) ==
    \/ a.tree_depth < b.tree_depth
    \/ a.tree_depth = b.tree_depth /\ a.tree_sequence < b.tree_sequence

\* the order of by=['relationship.tree-sequence', 'relationship.tree-depth']
Precedes(a, b) ==
    \/ a.tree_sequence < b.tree_sequence
    \/ a.tree_sequence = b.tree_sequence /\ a.tree_depth < b.tree_depth

\* one step of the sort: x goes behind the rows that it does not precede
InsertRow(s, x) ==
    LET p == Cardinality({i \in 1..Len(s) : ~Precedes(x, s[i])})
    IN  SubSeq(s, 1, p) \o <<x>> \o SubSeq(s, p + 1, Len(s))

RECURSIVE SortValues(_)
\* merged_df.sort_values(by=[...]): line 61
SortValues(rows) ==
    IF rows = <<>> THEN <<>>
    ELSE InsertRow(SortValues(SubSeq(rows, 1, Len(rows) - 1)), rows[Len(rows)])

\* to_csv into a directory that does not exist
OSError == [type |-> "OSError", message |-> <<>>,
            status_code |-> None, response_data |-> None]

\* combine_to_dataframe looking at the concepts only before it merges
combine_to_dataframe_concepts_only(self, dir_ok) ==
    IF self.concepts = <<>>
    THEN [self |-> self, files |-> <<>>, raised |-> None, returned |-> Some(<<>>)]
    ELSE IF ~dir_ok
    THEN [self |-> self, files |-> <<>>, raised |-> Some(OSError),
          returned |-> None]
    ELSE LET df_concepts == RenameColumns(self.concepts, "target_concept_id",
                                          "concept_id")
             merged_df == MergeLeft(df_concepts, DropDuplicates(self.facts),
                                    "concept_id")
         IN  [self |-> self,
              files |-> <<"output/concepts.csv", "output/facts.csv">>,
              raised |-> None,
              returned |-> Some(SortValues(merged_df))]

\* combine_to_dataframe renaming the column in the statement's own rows
combine_to_dataframe_renames_stored(self, dir_ok) ==
    IF self.concepts = <<>> \/ self.facts = <<>>
    THEN [self |-> self, files |-> <<>>, raised |-> None, returned |-> Some(<<>>)]
    ELSE IF ~dir_ok
    THEN [self |-> self, files |-> <<>>, raised |-> Some(OSError),
          returned |-> None]
    ELSE LET df_concepts == RenameColumns(self.concepts, "target_concept_id",
                                          "concept_id")
             merged_df == MergeLeft(df_concepts, DropDuplicates(self.facts),
                                    "concept_id")
         IN  [self |-> [self EXCEPT !.concepts = df_concepts],
              files |-> <<"output/concepts.csv", "output/facts.csv">>,
              raised |-> None,
              returned |-> Some(SortValues(merged_df))]

\* FinancialStatement.combine_to_dataframe: lines 35-61.  dir_ok tells
\* whether the directory output/ exists; to_csv raises OSError without it.
\* The frames are copies of the lists, so self stays as it is.
combine_to_dataframe(self, dir_ok) ==
    IF self.concepts = <<>> \/ self.facts = <<>>
    THEN [self |-> self, files |-> <<>>, raised |-> None, returned |-> Some(<<>>)]
    ELSE IF ~dir_ok
    THEN [self |-> self, files |-> <<>>, raised |-> Some(OSError),
          returned |-> None]
    ELSE LET df_concepts == RenameColumns(self.concepts, "target_concept_id",
                                          "concept_id")
             merged_df == MergeLeft(df_concepts, DropDuplicates(self.facts),
                                    "concept_id")
         IN  [self |-> self,
              files |-> <<"output/concepts.csv", "output/facts.csv">>,
              raised |-> None,
              returned |-> Some(SortValues(merged_df))]

-----------------------------------------------------------------------------
(* class Report.                                                           *)

\* key=lambda x: len(x.get('network.role-description', '')): line 111
RoleLength(x) == Len(GetOr(x.role_description, <<>>))

\* a step of a sort that is not stable: x goes before the elements of its key
InsertNetworkUnstable(s, x) ==
    LET p == Cardinality({i \in 1..Len(s) : RoleLength(s[i]) > RoleLength(x)})
    IN  SubSeq(s, 1, p) \o <<x>> \o SubSeq(s, p + 1, Len(s))

\* One step of list.sort(key=RoleLength, reverse=True): x, which follows the
\* elements of s in the list, goes behind every element whose key is not
\* smaller than its own (the sort is stable).
InsertNetwork(s, x) ==
    LET p == Cardinality({i \in 1..Len(s) : RoleLength(s[i]) >= RoleLength(x)})
    IN  SubSeq(s, 1, p) \o <<x>> \o SubSeq(s, p + 1, Len(s))

RECURSIVE SortNetworks(_)
\* networks_data.sort(key=..., reverse=True): line 111
SortNetworks(s) ==
    IF s = <<>> THEN <<>>
    ELSE InsertNetwork(SortNetworks(SubSeq(s, 1, Len(s) - 1)), s[Len(s)])

\* response_data.get('data', [])
DataOf(q) == GetOr(q.returned[1].data, <<>>)

\* _find_financial_statement_network searching with the income statement's
\* roles whatever the statement type
_find_financial_statement_network_any(c, t, stype, r, resp, r2) ==
    LET q == query(c, t, Request("network/search", None), r, resp, r2) IN
    IF q.raised # None
    THEN [q EXCEPT !.raised = None, !.returned = None]
    ELSE IF DataOf(q) # <<>>
    THEN [q EXCEPT !.returned = SortNetworks(DataOf(q))[1].network_id]
    ELSE [q EXCEPT !.returned = None]

\* Report._find_financial_statement_network: lines 83-120.  Returns the
\* Optional network id in .returned; every exception of the query is caught.
_find_financial_statement_network(c, t, stype, r, resp, r2) ==
    IF stype # "Income Statement"
    THEN [c |-> c, posts |-> <<>>, gets |-> <<>>, queries |-> 0,
          raised |-> None, returned |-> None]
    ELSE LET q == query(c, t, Request("network/search", None), r, resp, r2) IN
         IF q.raised # None
         THEN [q EXCEPT !.raised = None, !.returned = None]
         ELSE IF DataOf(q) # <<>>
         THEN [q EXCEPT !.returned = SortNetworks(DataOf(q))[1].network_id]
         ELSE [q EXCEPT !.returned = None]

\* _load_concepts_and_relationships without its try
_load_concepts_and_relationships_uncaught(c, t, nid, r, resp, r2) ==
    LET q == query(c, t, Request("relationship/search", None), r, resp, r2) IN
    IF q.raised # None
    THEN q
    ELSE [q EXCEPT !.returned = DataOf(q)]

\* Report._load_concepts_and_relationships: lines 122-145.  Returns the
\* rows in .returned, [] when the query raises.
_load_concepts_and_relationships(c, t, nid, r, resp, r2) ==
    LET q == query(c, t, Request("relationship/search", None), r, resp, r2) IN
    IF q.raised # None
    THEN [q EXCEPT !.raised = None, !.returned = <<>>]
    ELSE [q EXCEPT !.returned = DataOf(q)]

\* a pass that goes on to the next offset after a page of no rows
FactsPassNoEmptyStop(c, t, fs, off, r, resp, r2) ==
    LET q == query(c, t, Request("fact/search?unique", Some(off)), r, resp, r2) IN
    IF q.raised # None
    THEN [q |-> [q EXCEPT !.raised = None], page |-> None,
          facts |-> fs, offset |-> off, stop |-> TRUE]
    ELSE IF DataOf(q) # <<>> /\ Len(DataOf(q)) < page_size
    THEN [q |-> q, page |-> Some(Len(DataOf(q))),
          facts |-> fs \o DataOf(q), offset |-> off, stop |-> TRUE]
    ELSE [q |-> q, page |-> Some(Len(DataOf(q))),
          facts |-> fs \o DataOf(q), offset |-> off + page_size, stop |-> FALSE]

\* a pass that tests the page's length before it adds the page's rows
FactsPassDropsShort(c, t, fs, off, r, resp, r2) ==
    LET q == query(c, t, Request("fact/search?unique", Some(off)), r, resp, r2) IN
    IF q.raised # None
    THEN [q |-> [q EXCEPT !.raised = None], page |-> None,
          facts |-> fs, offset |-> off, stop |-> TRUE]
    ELSE IF Len(DataOf(q)) < page_size
    THEN [q |-> q, page |-> Some(Len(DataOf(q))),
          facts |-> fs, offset |-> off, stop |-> TRUE]
    ELSE [q |-> q, page |-> Some(Len(DataOf(q))),
          facts |-> fs \o DataOf(q), offset |-> off + page_size, stop |-> FALSE]

\* a pass that goes on after a short page and stops at an empty one only
FactsPassNoShortStop(c, t, fs, off, r, resp, r2) ==
    LET q == query(c, t, Request("fact/search?unique", Some(off)), r, resp, r2) IN
    IF q.raised # None
    THEN [q |-> [q EXCEPT !.raised = None], page |-> None,
          facts |-> fs, offset |-> off, stop |-> TRUE]
    ELSE IF DataOf(q) = <<>>
    THEN [q |-> q, page |-> Some(0),
          facts |-> fs, offset |-> off, stop |-> TRUE]
    ELSE [q |-> q, page |-> Some(Len(DataOf(q))),
          facts |-> fs \o DataOf(q), offset |-> off + page_size, stop |-> FALSE]

\* a pass that throws the rows of the earlier pages away when its call raises
FactsPassDiscardsOnError(c, t, fs, off, r, resp, r2) ==
    LET q == query(c, t, Request("fact/search?unique", Some(off)), r, resp, r2) IN
    IF q.raised # None
    THEN [q |-> [q EXCEPT !.raised = None], page |-> None,
          facts |-> <<>>, offset |-> off, stop |-> TRUE]
    ELSE IF DataOf(q) = <<>>
    THEN [q |-> q, page |-> Some(0),
          facts |-> fs, offset |-> off, stop |-> TRUE]
    ELSE IF Len(DataOf(q)) < page_size
    THEN [q |-> q, page |-> Some(Len(DataOf(q))),
          facts |-> fs \o DataOf(q), offset |-> off, stop |-> TRUE]
    ELSE [q |-> q, page |-> Some(Len(DataOf(q))),
          facts |-> fs \o DataOf(q), offset |-> off + page_size, stop |-> FALSE]

\* One pass of the loop of Report.load_income_statement_data: lines 183-208.
\* .facts are the statement's facts after it, .page the number of rows the
\* call got, .stop tells whether the pass breaks.
FactsPass(c, t, fs, off, r, resp, r2) ==
    LET q == query(c, t, Request("fact/search?unique", Some(off)), r, resp, r2) IN
    IF q.raised # None
    THEN [q |-> [q EXCEPT !.raised = None], page |-> None,
          facts |-> fs, offset |-> off, stop |-> TRUE]
    ELSE IF DataOf(q) = <<>>
    THEN [q |-> q, page |-> Some(0),
          facts |-> fs, offset |-> off, stop |-> TRUE]
    ELSE IF Len(DataOf(q)) < page_size
    THEN [q |-> q, page |-> Some(Len(DataOf(q))),
          facts |-> fs \o DataOf(q), offset |-> off, stop |-> TRUE]
    ELSE [q |-> q, page |-> Some(Len(DataOf(q))),
          facts |-> fs \o DataOf(q), offset |-> off + page_size, stop |-> FALSE]

-----------------------------------------------------------------------------
(* class Company.  reports is the dict of the company: a function from     *)
(* the fiscal years it has to their Report.                                *)

\* Report.__init__: lines 71-81.  data.get gives None for a missing key.
Report(data) ==
    [report_id |-> data.report_id, fiscal_year |-> data.year_focus,
     statements |-> <<>>]

\* a dict assignment that leaves the entry of a key it already has
PutKeepsFirst(d, key, value) ==
    [k \in DOMAIN d \cup {key} |-> IF k \in DOMAIN d THEN d[k] ELSE value]

\* self.reports[report.fiscal_year] = report: line 257
Put(d, key, value) ==
    [k \in DOMAIN d \cup {key} |-> IF k = key THEN value ELSE d[k]]

\* the for loop of load_10k_reports: lines 254-257
StoreReports(d, rows) ==
    LET F[i \in 0..Len(rows)] ==
            IF i = 0 THEN d
            ELSE Put(F[i - 1], Report(rows[i]).fiscal_year, Report(rows[i]))
    IN  F[Len(rows)]

\* the parameters of the search for reports: lines 241-247
ReportRequest(years) ==
    [path |-> "report/search", offset |-> None, years |-> years,
     limit |-> Len(years)]

\* Company.load_10k_reports: lines 224-264, for years a list of strings.
\* The except of line 263 takes what query raises, and also the
\* UnboundLocalError of line 260 when the answer has no rows.
load_10k_reports(c, t, d, years, r, resp, r2) ==
    LET q == query(c, t, ReportRequest(years), r, resp, r2) IN
    IF q.raised # None
    THEN [q |-> [q EXCEPT !.raised = None], reports |-> d]
    ELSE [q |-> q, reports |-> StoreReports(d, DataOf(q))]

-----------------------------------------------------------------------------
(* The answers of the data endpoint.                                       *)

Ok(data) == GetResponse(FALSE, 200, "OK", TRUE, None, data)

\* a transport failure and an error status
DataFailures ==
    { GetResponse(TRUE, 0, "", FALSE, None, None),
      GetResponse(FALSE, 500, "Odd", TRUE, None, None) }

\* answers to a direct query
GetResponses ==
    { GetResponse(TRUE, 0, "", FALSE, None, None),
      Ok(Some(<<>>)),
      GetResponse(FALSE, 200, "OK", FALSE, None, None),
      GetResponse(FALSE, 401, "Unauthorized", TRUE, Some("Token Expired"), None),
      GetResponse(FALSE, 401, "Unauthorized", FALSE, None, None),
      GetResponse(FALSE, 404, "Not Found", TRUE, Some("Not Found"), None),
      GetResponse(FALSE, 600, "Odd", TRUE, Some("Token Expired"), None),
      GetResponse(FALSE, 600, "Odd", FALSE, None, None) }

\* a role description of n characters
Role(n) == [i \in 1..n |-> "x"]

RoleLengths == {1, 2, 3}

\* the i-th network of an answer has id i
Network(id, n) == [network_id |-> Some(id), role_description |-> Some(Role(n))]

\* the lists of up to MaxCandidates networks
NetworkLists ==
    UNION { { [i \in 1..k |-> Network(i, lens[i])] :
                lens \in [1..k -> RoleLengths] } : k \in 0..MaxCandidates }

NetworkResponses ==
    DataFailures \cup {Ok(None)} \cup {Ok(Some(l)) : l \in NetworkLists}

Concept(id, seq, depth) ==
    [target_concept_id |-> id, tree_sequence |-> seq, tree_depth |-> depth]

ConceptLists == { <<>>, <<Concept(1, 2, 1), Concept(2, 1, 1)>> }

ConceptResponses ==
    DataFailures \cup {Ok(None)} \cup {Ok(Some(l)) : l \in ConceptLists}

\* the rows of the n facts the endpoint returns from offset off on
Page(off, n) == [j \in 1..n |-> [fact |-> off + j]]

PageSizes == {0, 37, page_size - 1, page_size}

\* the endpoint serves at most MaxPages full pages to one call
PageSizesAt(off) ==
    IF off < MaxPages * page_size THEN PageSizes
    ELSE {n \in PageSizes : n < page_size}

FactResponses(off) ==
    DataFailures \cup {Ok(Some(Page(off, n))) : n \in PageSizesAt(off)}

\* The token answers an operation can consume at time t, out of TR
FirstAnswers(TR, c, t) ==
    IF NeedsToken(c, t) THEN TR ELSE {NoTokenResponse}

\* ... and by the refresh of _handle_response, when the GET's answer reaches it
SecondAnswers(TR, resp) ==
    IF /\ ~resp.err
       /\ ~RaisesForStatus(resp.status)
       /\ resp.status = 401
       /\ MentionsExpired(ErrorMessage(resp))
    THEN TR ELSE {NoTokenResponse}

\* the token answers of the runs of the pipeline
PipelineTokenResponses ==
    { TokenResponse(TRUE, 0, None, None),
      TokenResponse(FALSE, 200, Some("tokA"), None) }

PipelineTickSteps == {3300}

StatementTypes == {"Income Statement", "Balance Sheet"}

-----------------------------------------------------------------------------
(* Actions.                                                                *)

\* the client's fields and what the operation did, taken from its result e;
\* resp is the answer the data endpoint had for the operation's GET
Effect(name, e, resp) ==
    /\ access_token' = e.c.access_token
    /\ token_expiry_time' = e.c.token_expiry_time
    /\ authorization' = e.c.authorization
    /\ op' = name
    /\ token_requests' = Len(e.posts)
    /\ token_answers' = e.posts
    /\ query_calls' = e.queries
    /\ gets' = e.gets
    /\ answer' = IF e.gets # <<>> THEN Some(resp) ELSE None
    /\ raised' = e.raised
    /\ files' = <<>>

NoAnswer == GetResponse(TRUE, -1, "", FALSE, None, None)

Init ==
    /\ now = 0
    /\ phase = "none"
    /\ access_token = None
    /\ token_expiry_time = None
    /\ authorization = None
    /\ op = "none"
    /\ token_requests = 0
    /\ token_answers = <<>>
    /\ query_calls = 0
    /\ gets = <<>>
    /\ answer = None
    /\ raised = None
    /\ returned = None
    /\ files = <<>>
    /\ statement_type = None
    /\ pc = "idle"
    /\ network_id = None
    /\ concepts = <<>>
    /\ facts = <<>>
    /\ offset = 0
    /\ calls = <<>>
    /\ pages = <<>>
    /\ statements = None
    /\ reports = <<>>

\* time passes between two operations
Tick(steps) ==
    /\ \E d \in steps : now + d <= MaxNow /\ now' = now + d
    /\ op' = "tick"
    /\ token_requests' = 0
    /\ token_answers' = <<>>
    /\ query_calls' = 0
    /\ gets' = <<>>
    /\ answer' = None
    /\ raised' = None
    /\ returned' = None
    /\ files' = <<>>
    /\ UNCHANGED <<clientVars, reportVars, reports>>

\* XBRLClient(...): a failed construction leaves no client
Construct(TR) ==
    /\ phase # "ready"
    /\ \E r \in TR :
         LET e == __init__(now, r) IN
         /\ Effect("__init__", e, NoAnswer)
         /\ returned' = e.returned
         /\ phase' = IF e.raised = None THEN "ready" ELSE "failed"
    /\ UNCHANGED <<now, reportVars, reports>>

\* client.query(endpoint) called directly
Query(TR, GR) ==
    /\ phase = "ready"
    /\ \E r \in FirstAnswers(TR, Self, now), resp \in GR :
         \E r2 \in SecondAnswers(TR, resp) :
            LET e == query(Self, now, Request("report/search", None), r, resp, r2)
            IN  Effect("query", e, resp) /\ returned' = e.returned
    /\ UNCHANGED <<now, phase, reportVars, reports>>

\* client.get_token()
GetToken(TR) ==
    /\ phase = "ready"
    /\ \E r \in FirstAnswers(TR, Self, now) :
         LET e == get_token(Self, now, r)
         IN  Effect("get_token", e, NoAnswer) /\ returned' = e.returned
    /\ UNCHANGED <<now, phase, reportVars, reports>>

\* Report.__init__: lines 71-81, the next report of the run
NewReport ==
    /\ pc = "done"
    /\ pc' = "idle"
    /\ op' = "Report"
    /\ token_requests' = 0
    /\ token_answers' = <<>>
    /\ query_calls' = 0
    /\ gets' = <<>>
    /\ answer' = None
    /\ raised' = None
    /\ returned' = None
    /\ files' = <<>>
    /\ statement_type' = None
    /\ network_id' = None
    /\ concepts' = <<>>
    /\ facts' = <<>>
    /\ offset' = 0
    /\ calls' = <<>>
    /\ pages' = <<>>
    /\ statements' = None
    /\ UNCHANGED <<now, clientVars, reports>>

\* report._find_financial_statement_network(client, stype) called by itself
FindNetwork(TR) ==
    /\ phase = "ready"
    /\ pc = "idle"
    /\ \E stype \in StatementTypes :
       \E r \in FirstAnswers(TR, Self, now), resp \in NetworkResponses :
       \E r2 \in SecondAnswers(TR, resp) :
         LET e == _find_financial_statement_network(Self, now, stype, r, resp, r2)
         IN  /\ Effect("_find_financial_statement_network", e, resp)
             /\ returned' = e.returned
             /\ statement_type' = Some(stype)
    /\ UNCHANGED <<now, phase, pc, network_id, concepts, facts, offset, calls,
                   pages, statements, reports>>

\* the requests of the client.query calls an operation made
CallsOf(e, request) == IF e.queries = 1 THEN <<request>> ELSE <<>>

\* step 1 going on to the relationship search without a network
LoadNetworkGoesOn(TR) ==
    /\ phase = "ready"
    /\ pc = "idle"
    /\ \E r \in FirstAnswers(TR, Self, now), resp \in NetworkResponses :
       \E r2 \in SecondAnswers(TR, resp) :
         LET e == _find_financial_statement_network(Self, now, "Income Statement",
                                                    r, resp, r2)
         IN  /\ Effect("load:network", e, resp)
             /\ returned' = None
             /\ statement_type' = Some("Income Statement")
             /\ network_id' = e.returned
             /\ calls' = CallsOf(e, Request("network/search", None))
             /\ pc' = "concepts"
    /\ UNCHANGED <<now, phase, concepts, facts, offset, pages, statements, reports>>

\* load_income_statement_data, step 1: lines 152-157
LoadNetwork(TR) ==
    /\ phase = "ready"
    /\ pc = "idle"
    /\ \E r \in FirstAnswers(TR, Self, now), resp \in NetworkResponses :
       \E r2 \in SecondAnswers(TR, resp) :
         LET e == _find_financial_statement_network(Self, now, "Income Statement",
                                                    r, resp, r2)
         IN  /\ Effect("load:network", e, resp)
             /\ returned' = None
             /\ statement_type' = Some("Income Statement")
             /\ network_id' = e.returned
             /\ calls' = CallsOf(e, Request("network/search", None))
             /\ pc' = IF e.returned = None THEN "done" ELSE "concepts"
    /\ UNCHANGED <<now, phase, concepts, facts, offset, pages, statements, reports>>

\* load_income_statement_data, steps 2 to 4 up to the loop: lines 159-181
LoadConcepts(TR) ==
    /\ pc = "concepts"
    /\ \E r \in FirstAnswers(TR, Self, now), resp \in ConceptResponses :
       \E r2 \in SecondAnswers(TR, resp) :
         LET e == _load_concepts_and_relationships(Self, now, network_id,
                                                   r, resp, r2)
         IN  /\ Effect("load:concepts", e, resp)
             /\ returned' = None
             /\ calls' = calls \o CallsOf(e, Request("relationship/search", None))
             /\ IF e.returned = <<>>
                THEN pc' = "done" /\ UNCHANGED <<concepts, facts, offset>>
                ELSE /\ pc' = "facts"
                     /\ concepts' = e.returned
                     /\ facts' = <<>>
                     /\ offset' = 0
    /\ UNCHANGED <<now, phase, statement_type, network_id, pages, statements, reports>>

\* load_income_statement_data, one pass of the loop, and lines 210-211 when
\* the pass breaks
LoadFacts(TR) ==
    /\ pc = "facts"
    /\ \E r \in FirstAnswers(TR, Self, now), resp \in FactResponses(offset) :
       \E r2 \in SecondAnswers(TR, resp) :
         LET f == FactsPass(Self, now, facts, offset, r, resp, r2)
         IN  /\ Effect("load:facts", f.q, resp)
             /\ returned' = None
             /\ calls' = calls \o CallsOf(f.q, Request("fact/search?unique",
                                                       Some(offset)))
             /\ pages' = pages \o <<f.page>>
             /\ facts' = f.facts
             /\ offset' = f.offset
             /\ IF f.stop
                THEN /\ pc' = "done"
                     /\ statements' = Some([concepts |-> concepts,
                                            facts |-> f.facts])
                ELSE UNCHANGED <<pc, statements>>
    /\ UNCHANGED <<now, phase, statement_type, network_id, concepts, reports>>

\* the rows a statement can be given
ConceptRows ==
    {Concept(1, 1, 1), Concept(1, 1, 2), Concept(1, 2, 1), Concept(2, 1, 1)}

Fact(id, value) == [concept_id |-> id, value |-> value]

FactRows == {Fact(1, "A"), Fact(1, "B"), Fact(2, "B"), Fact(3, "A")}

\* the lists of 1 to n elements of S
ListsUpTo(S, n) == UNION {[1..k -> S] : k \in 1..n}

\* what the operations of a statement leave alone
StatementFrame ==
    /\ token_requests' = 0
    /\ token_answers' = <<>>
    /\ query_calls' = 0
    /\ gets' = <<>>
    /\ answer' = None
    /\ UNCHANGED <<now, clientVars, statement_type, pc, network_id, offset,
                   calls, pages, statements, reports>>

\* statement.add_concepts(new_concepts)
AddConcepts ==
    /\ \E new \in ListsUpTo(ConceptRows, MaxConcepts - Len(concepts)) :
         concepts' = add_concepts(Statement(concepts, facts), new).concepts
    /\ op' = "add_concepts"
    /\ raised' = None
    /\ returned' = None
    /\ files' = <<>>
    /\ UNCHANGED facts
    /\ StatementFrame

\* statement.add_facts(new_facts)
AddFacts ==
    /\ \E new \in ListsUpTo(FactRows, MaxFacts - Len(facts)) :
         facts' = add_facts(Statement(concepts, facts), new).facts
    /\ op' = "add_facts"
    /\ raised' = None
    /\ returned' = None
    /\ files' = <<>>
    /\ UNCHANGED concepts
    /\ StatementFrame

\* statement.combine_to_dataframe()
Combine ==
    /\ \E dir_ok \in BOOLEAN :
         LET e == combine_to_dataframe(Statement(concepts, facts), dir_ok) IN
         /\ concepts' = e.self.concepts
         /\ facts' = e.self.facts
         /\ raised' = e.raised
         /\ returned' = e.returned
         /\ files' = e.files
    /\ op' = "combine_to_dataframe"
    /\ StatementFrame

\* a statement on its own
NextStatement == AddConcepts \/ AddFacts \/ Combine

SpecStatement == Init /\ [][NextStatement]_vars

\* XBRLClient(...) of XBRLClient.py
ConstructV(TR) ==
    /\ phase # "ready"
    /\ \E r \in TR :
         LET e == XBRLClient_init(now, r) IN
         /\ Effect("XBRLClient.__init__", e, NoAnswer)
         /\ returned' = e.returned
         /\ phase' = IF e.raised = None THEN "ready" ELSE "failed"
    /\ UNCHANGED <<now, reportVars, reports>>

\* client.query(endpoint) of XBRLClient.py
QueryV(TR, GR) ==
    /\ phase = "ready"
    /\ \E r \in FirstAnswers(TR, Self, now), resp \in GR :
         \E r2 \in SecondAnswers(TR, resp) :
            LET e == XBRLClient_query(Self, now, Request("report/search", None),
                                      r, resp, r2)
            IN  Effect("XBRLClient.query", e, resp) /\ returned' = e.returned
    /\ UNCHANGED <<now, phase, reportVars, reports>>

\* the client of XBRLClient.py on its own
NextXBRLClient ==
    \/ Tick(TickSteps)
    \/ ConstructV(TokenResponses)
    \/ QueryV(TokenResponses, GetResponses)

SpecXBRLClient == Init /\ [][NextXBRLClient]_vars

\* the fiscal years of the runs
Years == {"2023", "2024"}

YearLists == {<<"2024">>, <<"2024", "2023">>}

\* a row of an answer of report/search, with the report.year-focus asked for
ReportRow(id, year) == [report_id |-> id, year_focus |-> year]

\* the answers of report/search: the k-th row of batch b has id 10 * b + k
ReportLists ==
    UNION {{[k \in 1..n |-> ReportRow(10 * b + k, ys[k])] :
                ys \in [1..n -> {Some(y) : y \in Years}]} :
           n \in 0..MaxRows, b \in {1, 2}}

ReportResponses ==
    DataFailures \cup {Ok(None)} \cup {Ok(Some(l)) : l \in ReportLists}

\* company.load_10k_reports(client, years)
LoadReports(TR) ==
    /\ phase = "ready"
    /\ \E years \in YearLists :
       \E r \in FirstAnswers(TR, Self, now), resp \in ReportResponses :
       \E r2 \in SecondAnswers(TR, resp) :
         LET e == load_10k_reports(Self, now, reports, years, r, resp, r2)
         IN  /\ Effect("load_10k_reports", e.q, resp)
             /\ returned' = None
             /\ reports' = e.reports
    /\ UNCHANGED <<now, phase, reportVars>>

\* a company loading its reports again and again
NextCompany ==
    \/ Tick(PipelineTickSteps)
    \/ Construct(PipelineTokenResponses)
    \/ LoadReports(PipelineTokenResponses)

SpecCompany == Init /\ [][NextCompany]_vars

\* the client on its own
Next ==
    \/ Tick(TickSteps)
    \/ Construct(TokenResponses)
    \/ Query(TokenResponses, GetResponses)
    \/ GetToken(TokenResponses)

Spec == Init /\ [][Next]_vars

\* the pipeline of one report after the other
NextReport ==
    \/ Tick(PipelineTickSteps)
    \/ Construct(PipelineTokenResponses)
    \/ NewReport
    \/ FindNetwork(PipelineTokenResponses)
    \/ LoadNetwork(PipelineTokenResponses)
    \/ LoadConcepts(PipelineTokenResponses)
    \/ LoadFacts(PipelineTokenResponses)

SpecReport == Init /\ [][NextReport]_vars

-----------------------------------------------------------------------------
(* Properties of the client, checked under Spec.                           *)

\* the client holds a non-empty token that expires after now
LiveToken ==
    /\ access_token # None
    /\ access_token[1] # ""
    /\ token_expiry_time # None
    /\ now < token_expiry_time[1]

\* the token endpoint's answer r is a success: the POST got through and the
\* status is no error status
Granted(r) == ~r.err /\ r.status = 200

\* the data endpoint answered the GET of the last query with an HTTP status
Answered == op = "query" /\ answer # None /\ ~answer[1].err

\* C1: every GET that query sends carries a non-empty access token whose
\* expiry is later than the time of the GET.
C1_GetCarriesLiveToken ==
    op = "query" =>
        \A i \in 1..Len(gets) :
            /\ gets[i].access_token # None
            /\ gets[i].access_token[1] # ""
            /\ gets[i].token_expiry_time # None
            /\ gets[i].at < gets[i].token_expiry_time[1]

\* C2: a query or get_token that starts with a live token makes no token
\* request and leaves the token, its expiry and the Authorization header as
\* they were; one that makes a token request started without a live token.
C2_NoRequestWhileLive ==
    [][ op' \in {"query", "get_token"} =>
          /\ LiveToken =>
                /\ token_requests' = 0
                /\ UNCHANGED <<access_token, token_expiry_time, authorization>>
          /\ token_requests' > 0 => ~LiveToken ]_vars

C2_Witness ==
    /\ op = "query"
    /\ LiveToken
    /\ token_requests = 0
    /\ Len(gets) = 1
    /\ now > 0

\* C3: after a token request that succeeds, the expiry is the time of the
\* request plus expires_in minus 300 seconds, with 3600 for an omitted
\* expires_in.
C3_ExpiryOfNewToken ==
    (op \in {"__init__", "query", "get_token"} /\ token_answers # <<>>
        /\ Granted(token_answers[Len(token_answers)])) =>
        LET r == token_answers[Len(token_answers)]
            expires_in == IF r.expires_in = None THEN 3600 ELSE r.expires_in[1]
        IN  token_expiry_time = Some(now + expires_in - 300)

C3_Witness ==
    /\ op = "query"
    /\ now > 0
    /\ token_answers # <<>>
    /\ Granted(token_answers[1])
    /\ token_answers[1].expires_in = None
    /\ token_expiry_time = Some(now + 3300)

\* C4: a construction makes exactly one token request; it fails with
\* XBRLAPIError when the request fails or brings no usable access token,
\* and a client that was constructed holds a non-empty access token.
C4_Construction ==
    op = "__init__" =>
        /\ token_requests = 1
        /\ LET r == token_answers[1]
               usable == Granted(r) /\ r.access_token # None
                            /\ r.access_token[1] # ""
           IN  /\ usable => raised = None /\ phase = "ready"
               /\ ~usable => /\ raised # None
                             /\ raised[1].type = "XBRLAPIError"
                             /\ phase = "failed"
        /\ phase = "ready" => access_token # None /\ access_token[1] # ""

C4_Witness ==
    /\ op = "__init__"
    /\ phase = "failed"
    /\ Granted(token_answers[1])
    /\ token_answers[1].access_token = None

\* C5: a query whose GET is answered with status 401 makes exactly one token
\* request after that answer, on top of the one its token check may have
\* made, and raises an error.
C5_RefreshOn401 ==
    [][ (op' = "query" /\ answer' # None /\ ~answer'[1].err
            /\ answer'[1].status = 401) =>
          /\ token_requests' = (IF LiveToken THEN 1 ELSE 2)
          /\ raised' # None ]_vars

\* C6: a query whose GET is answered with a status of 400 or more raises an
\* XBRLAPIError with that status in status_code, the body (or the substitute
\* for a body that does not parse) in response_data and the body's error
\* field at the end of the message.
C6_ErrorCarriesStatus ==
    (Answered /\ answer[1].status >= 400) =>
        LET resp == answer[1]
            body == IF resp.parses THEN [error |-> resp.error]
                    ELSE [error |-> Some("Could not parse error message from API.")]
        IN  /\ raised # None
            /\ raised[1].type = "XBRLAPIError"
            /\ raised[1].status_code = Some(resp.status)
            /\ raised[1].response_data = Some(body)
            /\ body.error # None =>
                  raised[1].message[Len(raised[1].message)] = body.error[1]

-----------------------------------------------------------------------------
(* Properties of the pipeline, checked under SpecReport.                   *)

\* the list of networks the last network search got, if it got one
Candidates ==
    IF answer # None /\ ~answer[1].err /\ answer[1].status = 200
          /\ answer[1].parses /\ answer[1].data # None
    THEN answer[1].data ELSE None

\* the length of the role description of the i-th network of l
RoleLen(l, i) == Len(l[i].role_description[1])

\* i is the first place of l that holds a longest role description
FirstLongest(l, i) ==
    /\ \A j \in 1..Len(l) : RoleLen(l, j) <= RoleLen(l, i)
    /\ \A j \in 1..(i - 1) : RoleLen(l, j) < RoleLen(l, i)

\* C7: the network search returns the id of the first network among those
\* with the longest role description, and None for an empty list.
C7_LongestRoleFirst ==
    (op = "_find_financial_statement_network"
        /\ statement_type = Some("Income Statement") /\ Candidates # None) =>
        LET l == Candidates[1] IN
        IF l = <<>> THEN returned = None
        ELSE \E i \in 1..Len(l) :
                FirstLongest(l, i) /\ returned = l[i].network_id

C7_Witness ==
    /\ op = "_find_financial_statement_network"
    /\ Candidates # None
    /\ Len(Candidates[1]) = 3
    /\ RoleLen(Candidates[1], 1) < RoleLen(Candidates[1], 2)
    /\ RoleLen(Candidates[1], 2) = RoleLen(Candidates[1], 3)
    /\ returned = Candidates[1][2].network_id

\* C8: for a statement type other than "Income Statement" the network
\* search returns None, raises nothing, calls client.query not at all, makes
\* no token request, sends no GET and leaves the client as it was.
C8_UnsupportedTypeNoCall ==
    [][ (op' = "_find_financial_statement_network"
            /\ statement_type' # Some("Income Statement")) =>
          /\ returned' = None
          /\ raised' = None
          /\ query_calls' = 0
          /\ token_requests' = 0
          /\ gets' = <<>>
          /\ UNCHANGED clientVars ]_vars

C8_Witness ==
    /\ op = "_find_financial_statement_network"
    /\ statement_type = Some("Balance Sheet")
    /\ ~LiveToken
    /\ returned = None

\* the calls for facts of the current load_income_statement_data
FactCalls == SelectSeq(calls, LAMBDA c : c.path = "fact/search?unique")

\* pages holds k >= 0 full pages and then one page of 0 < r < 100 rows
FullThenShort ==
    /\ pages # <<>>
    /\ \A i \in 1..(Len(pages) - 1) : pages[i] = Some(100)
    /\ pages[Len(pages)] # None
    /\ 0 < pages[Len(pages)][1]
    /\ pages[Len(pages)][1] < 100

\* C9: after k full pages and a page of r rows, 0 < r < 100, the loop has
\* made k+1 calls, the i-th for offset 100*i, and the statement stored holds
\* the 100*k + r rows in the order of the pages.
C9_PagesAccumulate ==
    FullThenShort =>
        LET k == Len(pages) - 1
            r == pages[Len(pages)][1]
        IN  /\ pc = "done"
            /\ Len(FactCalls) = k + 1
            /\ \A i \in 0..k : FactCalls[i + 1].offset = Some(100 * i)
            /\ statements # None
            /\ Len(statements[1].facts) = 100 * k + r
            /\ \A n \in 1..(100 * k + r) : statements[1].facts[n] = [fact |-> n]

C9_Witness ==
    /\ pc = "done"
    /\ pages = <<Some(100), Some(100), Some(37)>>
    /\ statements # None
    /\ Len(statements[1].facts) = 237

\* C10: a page of fewer than 100 rows is the last one the loop asks for, and
\* the call is over with it; a first page of no rows leaves one call and no
\* facts.
C10_StopsAtShortPage ==
    /\ Len(FactCalls) = Len(pages)
    /\ \A i \in 1..Len(pages) :
          (pages[i] # None /\ pages[i][1] < 100) =>
              /\ i = Len(pages)
              /\ pc = "done"
              /\ calls[Len(calls)] = Request("fact/search?unique",
                                             Some(100 * (i - 1)))
    /\ pages = <<Some(0)>> =>
          /\ Len(FactCalls) = 1
          /\ statements # None
          /\ statements[1].facts = <<>>

C10_Witness ==
    /\ pc = "done"
    /\ pages = <<Some(0)>>
    /\ Len(FactCalls) = 1
    /\ facts = <<>>

\* C11: when the call for a page of facts raises, it is the last call of the
\* loop, the rows of the pages before it stay in the statement, the
\* statement is stored in the report and no exception leaves the call.
C11_FailedPageKeepsRows ==
    \A j \in 1..Len(pages) :
        pages[j] = None =>
            /\ j = Len(pages)
            /\ Len(FactCalls) = j
            /\ pc = "done"
            /\ raised = None
            /\ statements # None
            /\ Len(statements[1].facts) = 100 * (j - 1)
            /\ \A n \in 1..(100 * (j - 1)) : statements[1].facts[n] = [fact |-> n]
            /\ statements[1].concepts = concepts

C11_Witness ==
    /\ pc = "done"
    /\ pages = <<Some(100), Some(100), None>>
    /\ statements # None
    /\ Len(statements[1].facts) = 200
    /\ raised = None
-----------------------------------------------------------------------------
(* FinancialStatement.combine_to_dataframe                                 *)

\* combine_to_dataframe has returned a frame made of both lists
Combined ==
    /\ op = "combine_to_dataframe"
    /\ raised = None
    /\ concepts # <<>>
    /\ facts # <<>>

\* C12: the rows combine_to_dataframe returns for non-empty concepts and
\* facts are in ascending order of tree sequence, and those of one tree
\* sequence in ascending order of tree depth.
C12_SortedBySequenceThenDepth ==
    Combined =>
        LET rows == returned[1] IN
        \A i \in 1..Len(rows) : \A j \in (i + 1)..Len(rows) :
            \/ rows[i].tree_sequence < rows[j].tree_sequence
            \/ /\ rows[i].tree_sequence = rows[j].tree_sequence
               /\ rows[i].tree_depth <= rows[j].tree_depth

C12_Witness ==
    /\ Combined
    /\ concepts = <<Concept(1, 2, 1), Concept(2, 1, 1)>>
    /\ facts = <<Fact(1, "A"), Fact(2, "B")>>
    /\ Len(returned[1]) = 2
    /\ returned[1][1].concept_id = 2
    /\ returned[1][2].concept_id = 1

\* the concept columns of a row of the result
ConceptPart(row) ==
    [target_concept_id |-> row.concept_id,
     tree_sequence |-> row.tree_sequence,
     tree_depth |-> row.tree_depth]

\* the fact columns of a row of the result
FactPart(row) == [concept_id |-> row.concept_id, value |-> row.value]

\* the distinct fact rows of a concept id
FactsOf(id) == {facts[j] : j \in {k \in 1..Len(facts) : facts[k].concept_id = id}}

\* C13: the result is the left join of the concepts with the distinct
\* facts on the concept id: a concept row with n >= 1 distinct facts of
\* its id appears n times, once with each; one with none appears once with
\* empty fact fields; and no row comes from a fact of an unlisted concept id.
C13_LeftJoinOfDistinctFacts ==
    Combined =>
        LET rows == returned[1] IN
        /\ \A i \in 1..Len(concepts) :
            LET c == concepts[i]
                n == Cardinality(FactsOf(c.target_concept_id))
                copies == Cardinality({j \in 1..Len(concepts) : concepts[j] = c})
                mine == {r \in 1..Len(rows) : ConceptPart(rows[r]) = c}
            IN  /\ Cardinality(mine) = copies * (IF n = 0 THEN 1 ELSE n)
                /\ n = 0 => \A r \in mine : rows[r].value = NaN
                /\ n > 0 => {FactPart(rows[r]) : r \in mine}
                                = FactsOf(c.target_concept_id)
        /\ \A r \in 1..Len(rows) :
            \E i \in 1..Len(concepts) : ConceptPart(rows[r]) = concepts[i]

C13_Witness ==
    /\ Combined
    /\ \E i, j \in 1..Len(facts) : i # j /\ facts[i] = facts[j]
    /\ \E j \in 1..Len(facts) :
         \A i \in 1..Len(concepts) :
            concepts[i].target_concept_id # facts[j].concept_id
    /\ \E i \in 1..Len(concepts) : FactsOf(concepts[i].target_concept_id) = {}
    /\ Len(concepts) = 2
    /\ Len(returned[1]) = 2

\* C14: with no concept rows or no fact rows combine_to_dataframe returns
\* an empty frame, raises nothing and writes and merges nothing.
C14_EmptyInputEmptyResult ==
    (op = "combine_to_dataframe" /\ (concepts = <<>> \/ facts = <<>>)) =>
        /\ raised = None
        /\ returned = Some(<<>>)
        /\ files = <<>>

C14_Witness ==
    /\ op = "combine_to_dataframe"
    /\ concepts # <<>>
    /\ facts = <<>>
    /\ returned = Some(<<>>)

\* C15: combine_to_dataframe leaves the concept rows and the fact rows of
\* the statement as they were, and a second call on the statement returns
\* the rows of the first in the same order.
C15_CombineLeavesStatement ==
    [][op' = "combine_to_dataframe" =>
        /\ concepts' = concepts
        /\ facts' = facts
        /\ raised' = None =>
              returned' = combine_to_dataframe(Statement(concepts', facts'),
                                               TRUE).returned]_vars

C15_Witness ==
    /\ Combined
    /\ Len(returned[1]) >= 2
    /\ \A i \in 1..Len(concepts) : "target_concept_id" \in DOMAIN concepts[i]
    /\ \A r \in 1..Len(returned[1]) : "concept_id" \in DOMAIN returned[1][r]
-----------------------------------------------------------------------------
(* Failures of the gateway inside Report                                   *)

\* the operations of Report that call client.query
ReportOps ==
    {"_find_financial_statement_network", "load:network", "load:concepts",
     "load:facts"}

\* the client.query of the last operation failed: its token request was
\* refused or unreachable, or its GET was
GatewayFailed ==
    \/ token_answers # <<>> /\ ~Granted(token_answers[1])
    \/ answer # None /\ (answer[1].err \/ RaisesForStatus(answer[1].status))

\* C16: no failure of client.query leaves an operation of Report: after a
\* failed network search the network is None, after a failed relationship
\* search there are no concepts, after a failed fact page the loop has
\* stopped, and each time load_income_statement_data has returned.
C16_GatewayFailureStaysInside ==
    /\ op \in ReportOps => raised = None
    /\ (op = "_find_financial_statement_network" /\ GatewayFailed) =>
            returned = None
    /\ (op = "load:network" /\ GatewayFailed) =>
            network_id = None /\ pc = "done" /\ statements = None
    /\ (op = "load:concepts" /\ GatewayFailed) =>
            concepts = <<>> /\ pc = "done" /\ statements = None
    /\ (op = "load:facts" /\ GatewayFailed) =>
            /\ pc = "done"
            /\ pages[Len(pages)] = None
            /\ statements # None

C16_Witness ==
    /\ op = "load:concepts"
    /\ token_answers # <<>>
    /\ GatewayFailed
    /\ gets = <<>>
    /\ pc = "done"
    /\ raised = None
    /\ network_id # None
-----------------------------------------------------------------------------
(* The token request of a query                                            *)

\* C17: when query finds the token missing or expired and its token
\* request is unreachable or answered with an error status, query raises
\* XBRLAPIError and sends no GET.
C17_FailedTokenRequestNoGet ==
    [][(/\ op' = "query"
        /\ NeedsToken(Self, now)
        /\ token_answers' # <<>>
        /\ ~Granted(token_answers'[1])) =>
            /\ raised' # None
            /\ raised'[1].type = "XBRLAPIError"
            /\ gets' = <<>>
            /\ token_requests' = 1]_vars

C17_Witness ==
    /\ op = "query"
    /\ token_answers # <<>>
    /\ ~token_answers[1].err
    /\ token_answers[1].status = 500
    /\ raised # None
    /\ raised[1].type = "XBRLAPIError"
    /\ gets = <<>>
-----------------------------------------------------------------------------
(* The order of the calls of load_income_statement_data                    *)

\* the k-th client.query of a load that goes all the way
ExpectedCall(k) ==
    IF k = 1 THEN Request("network/search", None)
    ELSE IF k = 2 THEN Request("relationship/search", None)
    ELSE Request("fact/search?unique", Some(page_size * (k - 3)))

\* the steps of load_income_statement_data
LoadOps == {"load:network", "load:concepts", "load:facts"}

\* C18: the calls of one load_income_statement_data are the network
\* search, then the relationship search, then the fact pages; the
\* relationship search follows a network id, the fact pages a non-empty
\* concept list; without either nothing more is called and nothing is
\* stored; and each call is one client.query, which asks for a token first
\* when the client's has run out and sends its GET only with one granted.
C18_CallsInOrder ==
    [][/\ \A k \in 1..Len(calls') : calls'[k] = ExpectedCall(k)
       /\ Len(calls') >= 2 => network_id' # None
       /\ Len(calls') >= 3 => concepts' # <<>>
       /\ (pc' = "done" /\ network_id' = None) =>
              Len(calls') <= 1 /\ statements' = None
       /\ (pc' = "done" /\ network_id' # None /\ concepts' = <<>>) =>
              Len(calls') = 2 /\ statements' = None
       /\ op' \in LoadOps =>
              /\ query_calls' = 1
              /\ Len(gets') <= 1
              /\ Len(calls') = (IF op' = "load:network" THEN 0 ELSE Len(calls)) + 1
              /\ NeedsToken(Self, now) =>
                    /\ token_requests' = 1
                    /\ gets' # <<>> => Granted(token_answers'[1])]_vars

C18_Witness ==
    /\ pc = "done"
    /\ op = "load:facts"
    /\ Len(calls) = 4
    /\ calls[4] = Request("fact/search?unique", Some(100))
    /\ network_id # None
    /\ concepts # <<>>
    /\ statements # None
    /\ token_requests = 1
    /\ gets # <<>>
-----------------------------------------------------------------------------
(* The Authorization header of the session                                 *)

\* C19: once the client is constructed, whatever token requests and
\* queries succeeded or failed since, the session's Authorization header
\* is "Bearer " followed by the access_token of the client, and so is the
\* header of every GET that query sends.
C19_HeaderFollowsToken ==
    /\ phase = "ready" => authorization = Some(Bearer(access_token))
    /\ \A i \in 1..Len(gets) :
          gets[i].authorization = Some(Bearer(gets[i].access_token))

C19_Witness ==
    /\ phase = "ready"
    /\ op = "query"
    /\ token_answers # <<>>
    /\ Granted(token_answers[1])
    /\ gets # <<>>
    /\ access_token = Some("tokB")
    /\ gets[1].authorization = Some("Bearer tokB")
-----------------------------------------------------------------------------
(* The Authorization header of the client of XBRLClient.py                 *)

\* C20: every GET that query of XBRLClient.py sends after a successful
\* construction carries the header "Bearer " followed by the access_token
\* of the client, the queries before the first expiry included.
C20_VariantGetCarriesHeader ==
    op = "XBRLClient.query" =>
        \A i \in 1..Len(gets) :
            gets[i].authorization = Some(Bearer(gets[i].access_token))
-----------------------------------------------------------------------------
(* The GETs of one query                                                   *)

\* C21: a call of query sends at most one GET, whatever the answer: a GET
\* that fails, one answered with 401 included, is not sent again.
C21_AtMostOneGet ==
    op = "query" =>
        /\ query_calls = 1
        /\ Len(gets) <= 1
        /\ answer # None => Len(gets) = 1

C21_Witness ==
    /\ op = "query"
    /\ answer # None
    /\ ~answer[1].err
    /\ answer[1].status = 401
    /\ raised # None
    /\ Len(gets) = 1
-----------------------------------------------------------------------------
(* The fact pages of a report of N facts                                   *)

\* the numbers of facts a report of the runs can have
FactCounts == 0..(page_size * (MaxPages + 1) - 1)

\* the size of the i-th page that a gateway holding N facts returns, the
\* one for offset 100 * (i - 1)
PageOf(N, i) ==
    LET rest == N - 100 * (i - 1)
    IN  IF rest <= 0 THEN 0 ELSE IF rest >= 100 THEN 100 ELSE rest

\* every call of the loop so far was answered as by a gateway of N facts
ServedFrom(N) ==
    /\ pages # <<>>
    /\ \A i \in 1..Len(pages) : pages[i] = Some(PageOf(N, i))

\* C22: against a gateway that always answers and holds N facts the
\* paging loop makes floor(N/100) + 1 calls, no fewer and no more, the
\* i-th for offset 100 * (i - 1), and then holds the N facts, each once and
\* in order; for N a multiple of 100 the last call returns no rows.
C22_CallsForNFacts ==
    \A N \in FactCounts :
        ServedFrom(N) =>
            /\ Len(pages) <= (N \div 100) + 1
            /\ Len(FactCalls) = Len(pages)
            /\ \A i \in 1..Len(FactCalls) :
                  FactCalls[i].offset = Some(100 * (i - 1))
            /\ Len(pages) < (N \div 100) + 1 => pc = "facts"
            /\ Len(pages) = (N \div 100) + 1 =>
                  /\ pc = "done"
                  /\ statements # None
                  /\ statements[1].facts = [n \in 1..N |-> [fact |-> n]]
                  /\ N % 100 = 0 => pages[Len(pages)] = Some(0)

C22_Witness ==
    /\ pc = "done"
    /\ ServedFrom(200)
    /\ pages = <<Some(100), Some(100), Some(0)>>
    /\ Len(FactCalls) = 3
    /\ statements # None
    /\ Len(statements[1].facts) = 200
-----------------------------------------------------------------------------
(* The fields of the client across a token request                         *)

\* the fields an operation starts from: those of a new object for the
\* constructor, the client's own for its methods
FieldsBefore(name) == IF name = "__init__" THEN NewClient ELSE Self

\* C23: an operation whose token requests all failed leaves access_token,
\* token_expiry_time and the Authorization header as they were, and the
\* token or its expiry differ after an operation only if a token request
\* of it succeeded.
C23_FailedRequestKeepsFields ==
    [][/\ (/\ token_answers' # <<>>
           /\ \A i \in 1..Len(token_answers') : ~Granted(token_answers'[i])) =>
              Client(access_token', token_expiry_time', authorization')
                  = FieldsBefore(op')
       /\ (<<access_token', token_expiry_time'>>
               # <<FieldsBefore(op').access_token,
                    FieldsBefore(op').token_expiry_time>>) =>
              \E i \in 1..Len(token_answers') : Granted(token_answers'[i])]_vars

C23_Witness ==
    /\ op = "query"
    /\ token_answers # <<>>
    /\ ~Granted(token_answers[1])
    /\ access_token = Some("tokA")
    /\ authorization = Some("Bearer tokA")
    /\ token_expiry_time # None
    /\ now >= token_expiry_time[1]
-----------------------------------------------------------------------------
(* Company.load_10k_reports                                                *)

\* the rows of the answer to the last operation's GET
RowsAnswered == IF answer = None THEN <<>> ELSE GetOr(answer[1].data, <<>>)

\* the fiscal years of these rows
YearsAnswered == {RowsAnswered[i].year_focus : i \in 1..Len(RowsAnswered)}

\* the last of these rows that has fiscal year y
LastRowOf(y) ==
    LET at == {i \in 1..Len(RowsAnswered) : RowsAnswered[i].year_focus = y}
    IN  RowsAnswered[CHOOSE i \in at : \A j \in at : j <= i]

\* C24: load_10k_reports raises nothing; when its query fails the reports
\* stay as they were; when it is answered the reports have one Report for
\* each fiscal year of the rows, made of the last row of that year, and
\* keep the Reports of the other years they had.
C24_ReportsByFiscalYear ==
    [][op' = "load_10k_reports" =>
        /\ raised' = None
        /\ GatewayFailed' => reports' = reports
        /\ ~GatewayFailed' =>
              /\ DOMAIN reports' = DOMAIN reports \cup YearsAnswered'
              /\ \A y \in YearsAnswered' :
                    /\ reports'[y].fiscal_year = y
                    /\ reports'[y].report_id = LastRowOf(y)'.report_id
              /\ \A y \in DOMAIN reports \ YearsAnswered' :
                    reports'[y] = reports[y]]_vars

C24_Witness ==
    /\ op = "load_10k_reports"
    /\ ~GatewayFailed
    /\ RowsAnswered = <<ReportRow(21, Some("2024")), ReportRow(22, Some("2024"))>>
    /\ DOMAIN reports = {Some("2023"), Some("2024")}
    /\ reports[Some("2024")].report_id = 22
    /\ reports[Some("2023")].report_id = 11

====
